---- MODULE Spec2Model ----
(***************************************************************************)
(* State-machine model of the three scripts of freesurfer-editing-utils:   *)
(*   fs_merge_control_points.py   (SpecMerge)                              *)
(*   fs_inter_surface_distance.py (SpecDist: compare_editors' arithmetic;  *)
(*                                 SpecBatch: main's pool fan-out)         *)
(*   prep_rerun_fsrecon.py        (SpecPrep)                               *)
(* Every script has its own variables; a specification leaves the other    *)
(* scripts' variables at their idle values.                                *)
(***************************************************************************)
EXTENDS Integers, Sequences, FiniteSets, TLC

VARIABLES
    \* ---- fs_merge_control_points.py
    file1, file2,          \* the two input files: [pts: coordinate lines, tok: vals[1] of the useRealRAS line]
    cp1, cp2,              \* loaded point arrays
    ras_flag1, ras_flag2,  \* loaded flags
    cps,                   \* merged point array
    d_min,                 \* minimum-distance accumulator (squared, see Norm2)
    k2,                    \* number of points of cp2 the outer loop has taken
    app,                   \* per taken point of cp2: was vstack'ed onto cps
    outfile,               \* content of the merged output file, NoFile until written
    mpc,                   \* position in main
    \* ---- fs_inter_surface_distance.py, compare_editors' arithmetic
    coords1, coords2,      \* vertex arrays of the two meshes
    dmin12,                \* per-vertex nearest distances of coords1 to coords2 (squared)
    d12, d21, dsym,        \* forward, reverse and symmetric Hausdorff distances (squared)
    dpc,                   \* position in compare_editors
    \* ---- fs_inter_surface_distance.py, main's batch
    dir_list,              \* names glob finds in the subjects directory
    missing,               \* surface files absent from directories that exist: <<dirname, hemi, surfname>>
    n_cpu,                 \* psutil.cpu_count(logical=False)
    subjects, editors,     \* parse_subj_dirs' result
    compare_args,          \* the submitted tuples, in submission order
    next_chunk,            \* next chunk of compare_args the pool hands to a worker
    running,               \* the busy workers: [chunk, pos, phase, rows]
    lost,                  \* chunks whose worker process exited
    chunk_result,          \* per chunk: the rows its worker sent back, NoRows until then
    written,               \* finished file writes: [path, task]
    csv,                   \* rows of Hausdorff_Distances.csv, NoCsv until written
    bpc,                   \* position in main
    \* ---- prep_rerun_fsrecon.py
    listing,               \* os.listdir of the editors' directory: per editor, its subjects
    recons,                \* subjects with an unedited recon directory
    clones,                \* per-editor clones that exist in the edited directory
    edited_subject,        \* main's local, Unbound until first assigned
    subj_edit_dir,         \* main's local, Unbound until first assigned
    cmd_list,              \* the recon-all commands
    cmd_by,                \* per command: the (editor, subject) iteration that appended it
    copies,                \* edited files copied: [editor, subject, kind, dst]
    iter,                  \* number of (editor, subject) iterations taken
    cmds_file,             \* content of rerun_fsrecon.cmds, NoCmds until written
    ppc                    \* position in main

mvars == <<file1, file2, cp1, cp2, ras_flag1, ras_flag2, cps, d_min, k2, app, outfile, mpc>>
dvars == <<coords1, coords2, dmin12, d12, d21, dsym, dpc>>

bvars == <<dir_list, missing, n_cpu, subjects, editors, compare_args, next_chunk,
           running, lost, chunk_result, written, csv, bpc>>

pvars == <<listing, recons, clones, edited_subject, subj_edit_dir, cmd_list, cmd_by,
           copies, iter, cmds_file, ppc>>

vars == <<mvars, dvars, bvars, pvars>>

notMerge == <<dvars, bvars, pvars>>
notDist == <<mvars, bvars, pvars>>
notBatch == <<mvars, dvars, pvars>>
notPrep == <<mvars, dvars, bvars>>

-----------------------------------------------------------------------------
(* Bounds *)

\* coordinates are grid indices 0..MaxCoord
MaxCoord == 1
\* longest point array
MaxLen == 2
\* largest number of physical cores
MaxCpu == 2
\* largest number of (editor, subject) directories under the editors' directory
MaxEntries == 2

-----------------------------------------------------------------------------
(* Points and distances.                                                   *)
(* Lengths are in units of 0.002 mm.  Points lie on a grid of spacing      *)
(* 4 units (0.008 mm) in the plane z = 0: grid neighbours are 0.008 mm     *)
(* apart (within d_tol), diagonal neighbours 0.0113 mm (beyond d_tol), and *)
(* no two grid points are exactly d_tol apart, so the comparisons do not   *)
(* depend on floating-point rounding.                                      *)

Points == {<<4 * x, 4 * y, 0>> : x \in 0..MaxCoord, y \in 0..1}

PointSeqs == UNION {[1..n -> Points] : n \in 0..MaxLen}

\* np.linalg.norm(p1-p2), squared (squaring is monotone on distances, so
\* every comparison of two distances is the comparison of their squares)
Norm2(p, q) ==
    (p[1] - q[1]) * (p[1] - q[1]) + (p[2] - q[2]) * (p[2] - q[2])
        + (p[3] - q[3]) * (p[3] - q[3])

\* d_tol = 0.01 mm = 5 units
d_tol == 5

\* d_min = 1e30: stands for (1e30)^2, above every squared distance of the grid
D_MIN_INIT == 1000000

Min2(a, b) == IF a < b THEN a ELSE b
Max2(a, b) == IF a > b THEN a ELSE b

-----------------------------------------------------------------------------
(* Idle values of the scripts a specification does not run *)

\* no distance computed yet
NoDist == "none"

DistIdle ==
    /\ coords1 = <<>> /\ coords2 = <<>>
    /\ dmin12 = <<>>
    /\ d12 = NoDist /\ d21 = NoDist /\ dsym = NoDist
    /\ dpc = "idle"

NoCsv == <<"no file">>
NoRows == <<"no rows">>

BatchIdle ==
    /\ dir_list = {} /\ missing = {} /\ n_cpu = 1
    /\ subjects = <<>> /\ editors = <<>> /\ compare_args = <<>>
    /\ next_chunk = 1 /\ running = {} /\ lost = {}
    /\ chunk_result = <<>> /\ written = {} /\ csv = NoCsv
    /\ bpc = "idle"

Unbound == "<unbound>"
NoCmds == <<"no file">>

PrepIdle ==
    /\ listing = <<>> /\ recons = {} /\ clones = {}
    /\ edited_subject = Unbound /\ subj_edit_dir = Unbound
    /\ cmd_list = <<>> /\ cmd_by = <<>> /\ copies = {}
    /\ iter = 0 /\ cmds_file = NoCmds
    /\ ppc = "idle"

-----------------------------------------------------------------------------
(* fs_merge_control_points.py *)

NoFile == [written |-> FALSE]

\* vals[1] of the line 'useRealRAS <v>' after line.strip().split(' '):
\* "1" or "0" for a single blank, "" when two blanks separate key and value
FlagTokens == {"0", "1", ""}

\* bool(vals[1]): Python's bool of a string is its non-emptiness
PyBool(tok) == tok # ""

\* load_cps: the coordinate lines become the point array, the flag is bool(vals[1])
load_cps(f) == [cps |-> f.pts, use_real_ras |-> PyBool(f.tok)]

\* the inner loop over cp1 for one p2, from position i on: d_min after the loop
RECURSIVE InnerLoop(_, _, _, _)
InnerLoop(p2, c1, i, dm) ==
    IF i > Len(c1) THEN dm
    ELSE LET d == Norm2(c1[i], p2)
         IN  InnerLoop(p2, c1, i + 1, IF d < dm THEN d ELSE dm)

\* Exceeds with the comparison turned round
Exceeds_inverted(dm) == dm < d_tol * d_tol

\* the test 'd_min > d_tol' on the squared accumulator
Exceeds(dm) == dm > d_tol * d_tol

\* save_cps: the points, numpoints = cps.shape[0], useRealRAS = int(ras_flag)
save_cps(c, flag) ==
    [written |-> TRUE, pts |-> c, numpoints |-> Len(c),
     useRealRAS |-> IF flag THEN 1 ELSE 0]

MergeIdle ==
    /\ file1 = [pts |-> <<>>, tok |-> "1"]
    /\ file2 = [pts |-> <<>>, tok |-> "1"]
    /\ cp1 = <<>> /\ cp2 = <<>>
    /\ ras_flag1 = FALSE /\ ras_flag2 = FALSE
    /\ cps = <<>> /\ d_min = D_MIN_INIT /\ k2 = 0 /\ app = <<>>
    /\ outfile = NoFile
    /\ mpc = "idle"

MergeInit ==
    /\ file1 \in [pts : PointSeqs, tok : FlagTokens]
    /\ file2 \in [pts : PointSeqs, tok : FlagTokens]
    /\ cp1 = <<>> /\ cp2 = <<>>
    /\ ras_flag1 = FALSE /\ ras_flag2 = FALSE
    /\ cps = <<>> /\ d_min = D_MIN_INIT /\ k2 = 0 /\ app = <<>>
    /\ outfile = NoFile
    /\ mpc = "load"
    /\ DistIdle /\ BatchIdle /\ PrepIdle

\* main, lines 128-132
Load ==
    /\ mpc = "load"
    /\ cp1' = load_cps(file1).cps
    /\ ras_flag1' = load_cps(file1).use_real_ras
    /\ cp2' = load_cps(file2).cps
    /\ ras_flag2' = load_cps(file2).use_real_ras
    /\ mpc' = "flags"
    /\ UNCHANGED <<file1, file2, cps, d_min, k2, app, outfile, notMerge>>

\* main, lines 134-136
FlagMismatchExit ==
    /\ mpc = "flags"
    /\ ~(ras_flag1 = ras_flag2)
    /\ mpc' = "exit2"
    /\ UNCHANGED <<file1, file2, cp1, cp2, ras_flag1, ras_flag2, cps, d_min, k2, app, outfile, notMerge>>

\* StartMerge without the copy of cp1: the merged set starts empty
StartMerge_noCopy ==
    /\ mpc = "flags"
    /\ ras_flag1 = ras_flag2
    /\ cps' = <<>>
    /\ d_min' = D_MIN_INIT
    /\ mpc' = "loop"
    /\ UNCHANGED <<file1, file2, cp1, cp2, ras_flag1, ras_flag2, k2, app, outfile, notMerge>>

\* main, lines 134-143
StartMerge ==
    /\ mpc = "flags"
    /\ ras_flag1 = ras_flag2
    /\ cps' = cp1
    /\ d_min' = D_MIN_INIT
    /\ mpc' = "loop"
    /\ UNCHANGED <<file1, file2, cp1, cp2, ras_flag1, ras_flag2, k2, app, outfile, notMerge>>

\* np.vstack([cps, p2]): cps of shape (0,) (an empty cp1) and the 3-vector p2
\* have different trailing dimensions and vstack raises ValueError
VstackRaises(c) == Len(c) = 0

\* one iteration of the loop over cp2, lines 145-153
MergeStep ==
    /\ mpc = "loop"
    /\ k2 < Len(cp2)
    /\ LET p2 == cp2[k2 + 1]
           dm == InnerLoop(p2, cp1, 1, d_min)
       IN  /\ d_min' = dm
           /\ k2' = k2 + 1
           /\ IF Exceeds(dm)
              THEN IF VstackRaises(cps)
                   THEN /\ mpc' = "crash"
                        /\ UNCHANGED <<cps, app>>
                   ELSE /\ cps' = Append(cps, p2)
                        /\ app' = Append(app, TRUE)
                        /\ mpc' = "loop"
              ELSE /\ app' = Append(app, FALSE)
                   /\ mpc' = "loop"
                   /\ UNCHANGED cps
    /\ UNCHANGED <<file1, file2, cp1, cp2, ras_flag1, ras_flag2, outfile, notMerge>>

\* main, lines 155-162
Save ==
    /\ mpc = "loop"
    /\ k2 = Len(cp2)
    /\ outfile' = save_cps(cps, ras_flag1)
    /\ mpc' = "saved"
    /\ UNCHANGED <<file1, file2, cp1, cp2, ras_flag1, ras_flag2, cps, d_min, k2, app, notMerge>>

MergeNext == Load \/ FlagMismatchExit \/ StartMerge \/ MergeStep \/ Save

SpecMerge == MergeInit /\ [][MergeNext]_vars

-----------------------------------------------------------------------------
(* Properties of fs_merge_control_points.py (checked under SpecMerge) *)

\* the loop over cp2 has been entered
Merging == mpc \in {"loop", "saved", "crash"}

\* the j-th point of cp2 has been taken by the loop and was appended to cps
Appended(j) == j <= Len(app) /\ app[j]

\* p's own minimum distance to the points of cp1 exceeds the tolerance
OwnFar(p) == \A i \in 1..Len(cp1) : Norm2(cp1[i], p) > d_tol * d_tol

\* the minimum distance over all pairs (a in cp1, b among the first j points
\* of cp2) exceeds the tolerance
PairsFar(j) ==
    \A i \in 1..Len(cp1) : \A m \in 1..j : Norm2(cp1[i], cp2[m]) > d_tol * d_tol

\* C1: every point of the second set that the merge loop has decided on was
\* appended if and only if its own minimum distance to the first set exceeds
\* the tolerance, whatever was processed before it.
C1_PerPointTest ==
    Merging => \A j \in 1..Len(app) : app[j] <=> OwnFar(cp2[j])

\* C2: when one file says 'useRealRAS 1' and the other 'useRealRAS 0', the
\* run never gets past the flag check: no merge loop, no output file.
C2_MismatchIsFatal ==
    ({file1.tok, file2.tok} = {"0", "1"})
        => (mpc \in {"load", "flags", "exit2"} /\ outfile = NoFile)

\* C3 as stated: the merged set has at least max(count(A), count(B)) and at
\* most count(A) + count(B) points.
C3_Original ==
    (mpc = "saved")
        => /\ Len(cps) >= Max2(Len(cp1), Len(cp2))
           /\ Len(cps) <= Len(cp1) + Len(cp2)

\* C3 amended: throughout the merge and in the written file, the merged set
\* has at least count(A) and at most count(A) + count(B) points.
C3_CountBounds ==
    /\ Merging => /\ Len(cps) >= Len(cp1)
                  /\ Len(cps) <= Len(cp1) + Len(cp2)
    /\ outfile # NoFile => /\ outfile.numpoints = Len(outfile.pts)
                           /\ outfile.numpoints >= Len(file1.pts)
                           /\ outfile.numpoints <= Len(file1.pts) + Len(file2.pts)

\* a written merge that is smaller than its second input
C3_Witness ==
    mpc = "saved" /\ Len(cp1) > 0 /\ Len(cps) < Len(cp2) /\ outfile.numpoints = Len(cps)

\* C4: merging a point set with itself never fails in the loop and writes
\* exactly count(A) points, no point of the second copy being appended.
C4_SelfMergeSize ==
    (file1.pts = file2.pts)
        => /\ mpc # "crash"
           /\ Merging => Len(cps) = Len(file1.pts) /\ (\A j \in 1..Len(app) : ~app[j])
           /\ outfile # NoFile => /\ outfile.numpoints = Len(file1.pts)
                                  /\ outfile.pts = file1.pts

\* a written self-merge of two distinct points that are farther apart than
\* the tolerance
C4_Witness ==
    /\ mpc = "saved" /\ file1.pts = file2.pts /\ Len(file1.pts) = 2
    /\ Norm2(file1.pts[1], file1.pts[2]) > d_tol * d_tol
    /\ outfile.numpoints = 2

\* C6: the k-th point of the second set is appended if and only if the minimum
\* distance over all pairs (a in A, b among the first k points of B) exceeds
\* the tolerance when it is checked.
C6_RunningMinDecides ==
    Merging => \A j \in 1..k2 : Appended(j) <=> PairsFar(j)

\* What the accumulator does guarantee when the first set is not empty: the
\* running minimum decides every append, and the appended points are a
\* prefix of the second set.
RunningMinNonEmpty ==
    (Merging /\ Len(cp1) > 0) =>
        /\ mpc # "crash"
        /\ \A j \in 1..k2 : Appended(j) <=> PairsFar(j)
        /\ \A i, j \in 1..Len(app) : (i < j /\ app[j]) => app[i]

\* the accumulator never grows
DMinNonIncreasing == [][d_min' <= d_min]_vars

-----------------------------------------------------------------------------
(* fs_inter_surface_distance.py: compare_editors, lines 180-199 *)

\* all orders in which the rows 1..n can be visited
Perms(n) == {f \in [1..n -> 1..n] : \A i, j \in 1..n : f[i] = f[j] => i = j}

\* sklearn's pairwise_distances_argmin_min for one row x of X: the running
\* minimum over the rows of Y from position j on
RECURSIVE RowMin(_, _, _, _)
RowMin(x, Y, j, best) ==
    IF j > Len(Y) THEN best
    ELSE RowMin(x, Y, j + 1, Min2(best, Norm2(x, Y[j])))

pairwise_distances_argmin_min(X, Y) ==
    [i \in 1..Len(X) |-> RowMin(X[i], Y, 2, Norm2(X[i], Y[1]))]

\* np.max of a non-empty array, from position i on
RECURSIVE ArrayMax(_, _, _)
ArrayMax(a, i, best) ==
    IF i > Len(a) THEN best ELSE ArrayMax(a, i + 1, Max2(best, a[i]))

np_max(a) == ArrayMax(a, 2, a[1])

\* scipy's directed_hausdorff(u, v), its inner loop over the rows of v in the
\* order pv for one row x of u: breaks as soon as a distance falls below cmax.
\* Returns the pair <<cmin, d>> the outer loop then tests.
RECURSIVE HausdorffInner(_, _, _, _, _, _, _)
HausdorffInner(x, v, pv, j, cmax, cmin, dlast) ==
    IF j > Len(v) THEN <<cmin, dlast>>
    ELSE LET d == Norm2(x, v[pv[j]])
         IN  IF d < cmax THEN <<cmin, d>>
             ELSE HausdorffInner(x, v, pv, j + 1, cmax, Min2(cmin, d), d)

\* its outer loop over the rows of u in the order pu, from position i on
RECURSIVE HausdorffOuter(_, _, _, _, _, _)
HausdorffOuter(u, v, pu, pv, i, cmax) ==
    IF i > Len(u) THEN cmax
    ELSE LET r == HausdorffInner(u[pu[i]], v, pv, 1, cmax, D_MIN_INIT, 0)
         IN  HausdorffOuter(u, v, pu, pv, i + 1,
                            IF r[1] >= cmax /\ r[2] >= cmax THEN r[1] ELSE cmax)

\* directed_hausdorff(u, v) with the rows of both arrays shuffled into the
\* orders pu and pv (scipy shuffles them with its seeded generator)
directed_hausdorff(u, v, pu, pv) == HausdorffOuter(u, v, pu, pv, 1, 0)

DistInit ==
    /\ coords1 \in PointSeqs /\ coords2 \in PointSeqs
    /\ dmin12 = <<>>
    /\ d12 = NoDist /\ d21 = NoDist /\ dsym = NoDist
    /\ dpc = "loaded"
    /\ MergeIdle /\ BatchIdle /\ PrepIdle

\* lines 184: sklearn rejects an array with no rows (ValueError)
EmptyMeshError ==
    /\ dpc = "loaded"
    /\ (Len(coords1) = 0 \/ Len(coords2) = 0)
    /\ dpc' = "error"
    /\ UNCHANGED <<coords1, coords2, dmin12, d12, d21, dsym, notDist>>

\* line 184
PairwiseMin ==
    /\ dpc = "loaded"
    /\ Len(coords1) > 0 /\ Len(coords2) > 0
    /\ dmin12' = pairwise_distances_argmin_min(coords1, coords2)
    /\ dpc' = "forward"
    /\ UNCHANGED <<coords1, coords2, d12, d21, dsym, notDist>>

\* line 189
ForwardMax ==
    /\ dpc = "forward"
    /\ d12' = np_max(dmin12)
    /\ dpc' = "reverse"
    /\ UNCHANGED <<coords1, coords2, dmin12, d21, dsym, notDist>>

\* ReverseHausdorff with the two meshes in the order of the forward distance
ReverseHausdorff_swapped ==
    /\ dpc = "reverse"
    /\ \E pu \in Perms(Len(coords1)) : \E pv \in Perms(Len(coords2)) :
           d21' = directed_hausdorff(coords1, coords2, pu, pv)
    /\ dpc' = "symmetric"
    /\ UNCHANGED <<coords1, coords2, dmin12, d12, dsym, notDist>>

\* line 194
ReverseHausdorff ==
    /\ dpc = "reverse"
    /\ \E pu \in Perms(Len(coords2)) : \E pv \in Perms(Len(coords1)) :
           d21' = directed_hausdorff(coords2, coords1, pu, pv)
    /\ dpc' = "symmetric"
    /\ UNCHANGED <<coords1, coords2, dmin12, d12, dsym, notDist>>

\* lines 199-216
SymmetricReturn ==
    /\ dpc = "symmetric"
    /\ dsym' = Max2(d12, d21)
    /\ dpc' = "returned"
    /\ UNCHANGED <<coords1, coords2, dmin12, d12, d21, notDist>>

DistNext == EmptyMeshError \/ PairwiseMin \/ ForwardMax \/ ReverseHausdorff \/ SymmetricReturn

SpecDist == DistInit /\ [][DistNext]_vars

-----------------------------------------------------------------------------
(* Properties of compare_editors' arithmetic (checked under SpecDist) *)

\* m is the largest, over the points of X, of the distance to the nearest point of Y
IsMaxOfMins(m, X, Y) ==
    /\ \A i \in 1..Len(X) : \E j \in 1..Len(Y) : Norm2(X[i], Y[j]) <= m
    /\ \E i \in 1..Len(X) : \A j \in 1..Len(Y) : Norm2(X[i], Y[j]) >= m

\* C5: for non-empty meshes compare_editors returns d12 = the largest nearest
\* distance from editor 1's points to editor 2's, d21 = the largest nearest
\* distance from editor 2's points to editor 1's, and dsym = max(d12, d21),
\* which is at least both.
C5_Hausdorff ==
    /\ (Len(coords1) > 0 /\ Len(coords2) > 0) => dpc # "error"
    /\ (dpc = "returned") =>
          /\ IsMaxOfMins(d12, coords1, coords2)
          /\ IsMaxOfMins(d21, coords2, coords1)
          /\ dsym >= d12 /\ dsym >= d21 /\ dsym \in {d12, d21}

\* a returned comparison whose two directed distances differ and are not zero
C5_Witness ==
    /\ dpc = "returned" /\ Len(coords1) > 1 /\ Len(coords2) > 1
    /\ d12 > 0 /\ d21 > d12 /\ dsym = d21

-----------------------------------------------------------------------------
(* fs_inter_surface_distance.py: main's batch, lines 76-116.                *)
(* Names are sequences of characters, so that formatting and splitting act  *)
(* on them as they do on Python strings.  "s-1" stands for a subject name   *)
(* such as sub-CC0016_core1, which glob's pattern 'sub-CC*' makes contain a *)
(* '-'.                                                                     *)

SubjectNames == {<<"s", "-", "1">>, <<"s", "-", "2">>}
EditorNames == {<<"a">>, <<"b">>, <<"c">>}

\* '{}-{}'.format(a, b)
Dash(a, b) == a \o <<"-">> \o b

\* the directories the subjects directory may hold
DirNames == {Dash(s, e) : s \in SubjectNames, e \in EditorNames} \ {<<"s", "-", "2", "-", "c">>}

hemis == << <<"l", "h">>, <<"r", "h">> >>
surfnames == << <<"p", "i", "a", "l">>, <<"w", "h", "i", "t", "e">> >>

\* the surface files a directory should hold
SurfFiles(dirs) ==
    {<<d, hemis[h], surfnames[f]>> : d \in dirs, h \in 1..Len(hemis), f \in 1..Len(surfnames)}

\* code point of a character
Ord(c) ==
    CASE c = "-" -> 45 [] c = "." -> 46 [] c = "1" -> 49 [] c = "2" -> 50
      [] c = "a" -> 97 [] c = "b" -> 98 [] c = "c" -> 99 [] c = "d" -> 100
      [] c = "e" -> 101 [] c = "h" -> 104 [] c = "i" -> 105 [] c = "l" -> 108
      [] c = "p" -> 112 [] c = "r" -> 114 [] c = "s" -> 115 [] c = "t" -> 116
      [] c = "w" -> 119

\* Python's order of two strings: u < v
RECURSIVE StrLess(_, _)
StrLess(u, v) ==
    IF v = <<>> THEN FALSE
    ELSE IF u = <<>> THEN TRUE
    ELSE IF Head(u) = Head(v) THEN StrLess(Tail(u), Tail(v))
    ELSE Ord(Head(u)) < Ord(Head(v))

\* np.unique: the distinct values, sorted
RECURSIVE np_unique(_)
np_unique(S) ==
    IF S = {} THEN <<>>
    ELSE LET m == CHOOSE x \in S : \A y \in S \ {x} : StrLess(x, y)
         IN  <<m>> \o np_unique(S \ {m})

\* base_dname.rsplit('-', 1)
rsplit(name) ==
    LET at == CHOOSE i \in 1..Len(name) :
                  name[i] = "-" /\ \A j \in (i + 1)..Len(name) : name[j] # "-"
    IN  <<SubSeq(name, 1, at - 1), SubSeq(name, at + 1, Len(name))>>

parse_subj_dirs(dirs) ==
    [subjects |-> np_unique({rsplit(d)[1] : d \in dirs}),
     editors  |-> np_unique({rsplit(d)[2] : d \in dirs})]

\* concatenation of a sequence of sequences
RECURSIVE Flatten(_)
Flatten(ss) == IF ss = <<>> THEN <<>> ELSE Head(ss) \o Flatten(Tail(ss))

\* EditorPairs with the inner loop starting at ic instead of ic + 1
EditorPairs_fromIc(n) ==
    Flatten([ic \in 1..(n - 1) |-> [m \in 1..(n - ic + 1) |-> <<ic, ic + m - 1>>]])

\* the upper-triangle loop, lines 97-98 (positions counted from 1)
EditorPairs(n) ==
    Flatten([ic \in 1..(n - 1) |-> [m \in 1..(n - ic) |-> <<ic, ic + m>>]])

\* the nested loops of lines 91-103
BuildCompareArgs(subjs, eds) ==
    Flatten([s \in 1..Len(subjs) |->
      Flatten([h \in 1..Len(hemis) |->
        Flatten([f \in 1..Len(surfnames) |->
          [q \in 1..Len(EditorPairs(Len(eds))) |->
             [subject |-> subjs[s],
              editor1 |-> eds[EditorPairs(Len(eds))[q][1]],
              editor2 |-> eds[EditorPairs(Len(eds))[q][2]],
              hemi |-> hemis[h],
              surfname |-> surfnames[f]]]])])])

\* compare_editors, lines 149-154 and 156, 160: os.path.isfile of a surface
Surf1(t) == <<Dash(t.subject, t.editor1), t.hemi, t.surfname>>
Surf2(t) == <<Dash(t.subject, t.editor2), t.hemi, t.surfname>>
IsFile(f) == f[1] \in dir_list /\ f \notin missing

\* line 206: the distance file, in the output directory
DistPath(t) ==
    [dir |-> "outdir",
     name |-> t.subject \o <<"-">> \o t.editor1 \o <<"-">> \o t.editor2 \o <<"-">>
                  \o t.hemi \o <<"-">> \o t.surfname \o <<".", "d", "i", "s", "t">>]

\* lines 211-214: the copied source mesh; the name has no directory part, so
\* the copy lands in the working directory
CopyPath(t) ==
    [dir |-> "cwd",
     name |-> t.subject \o <<"-">> \o t.editor1 \o <<"-">> \o t.hemi \o <<".">> \o t.surfname]

\* line 216: the returned row without its three distances (their values are
\* those of SpecDist)
Row(t) == <<t.subject, t.editor1, t.editor2, t.hemi, t.surfname>>

\* Pool.starmap's default chunking of n tasks over the pool's workers
ChunkSize(n, ncpu) ==
    IF n = 0 THEN 0 ELSE (n + 4 * ncpu - 1) \div (4 * ncpu)
NChunks(n, ncpu) ==
    IF n = 0 THEN 0 ELSE (n + ChunkSize(n, ncpu) - 1) \div ChunkSize(n, ncpu)
ChunkFirst(c) == (c - 1) * ChunkSize(Len(compare_args), n_cpu) + 1
ChunkLast(c) == Min2(c * ChunkSize(Len(compare_args), n_cpu), Len(compare_args))

\* the task a busy worker is at
TaskIndex(job) == ChunkFirst(job.chunk) + job.pos - 1
TaskOf(job) == compare_args[TaskIndex(job)]

BatchInit ==
    /\ dir_list \in SUBSET DirNames
    /\ missing \in {{}} \cup {{f} : f \in SurfFiles(dir_list)}
    /\ n_cpu \in 1..MaxCpu
    /\ subjects = <<>> /\ editors = <<>> /\ compare_args = <<>>
    /\ next_chunk = 1 /\ running = {} /\ lost = {}
    /\ chunk_result = <<>> /\ written = {} /\ csv = NoCsv
    /\ bpc = "start"
    /\ MergeIdle /\ DistIdle /\ PrepIdle

\* main, lines 76-103
Parse ==
    /\ bpc = "start"
    /\ LET r == parse_subj_dirs(dir_list)
           a == BuildCompareArgs(r.subjects, r.editors)
       IN  /\ subjects' = r.subjects
           /\ editors' = r.editors
           /\ compare_args' = a
           /\ chunk_result' = [c \in 1..NChunks(Len(a), n_cpu) |-> NoRows]
    /\ bpc' = "pool"
    /\ UNCHANGED <<dir_list, missing, n_cpu, next_chunk, running, lost, written, csv, notBatch>>

\* a worker that starts on chunk c
StartJob(c) == [chunk |-> c, pos |-> 1, phase |-> "check", rows |-> <<>>]

\* the pool's task queue: the worker that becomes free takes the next chunk,
\* if one is left
TakeNext == IF next_chunk <= Len(chunk_result) THEN {StartJob(next_chunk)} ELSE {}
NextAfterTake == IF next_chunk <= Len(chunk_result) THEN next_chunk + 1 ELSE next_chunk

\* line 107: starmap queues the chunks and the pool's n_cpu workers take the
\* first ones
Submit ==
    /\ bpc = "pool"
    /\ LET n == Min2(n_cpu, Len(chunk_result))
       IN  /\ running' = {StartJob(c) : c \in 1..n}
           /\ next_chunk' = n + 1
    /\ bpc' = "map"
    /\ UNCHANGED <<dir_list, missing, n_cpu, subjects, editors, compare_args, lost,
                   chunk_result, written, csv, notBatch>>

\* compare_editors, lines 156-208: both surfaces exist, are loaded, the
\* distances are computed and write_morph_data opens the distance file
SurfacesFound(job) ==
    /\ job.phase = "check"
    /\ IsFile(Surf1(TaskOf(job))) /\ IsFile(Surf2(TaskOf(job)))
    /\ running' = (running \ {job}) \cup {[job EXCEPT !.phase = "write_dist"]}
    /\ UNCHANGED <<dir_list, missing, n_cpu, subjects, editors, compare_args, next_chunk,
                   lost, chunk_result, written, csv, bpc, notBatch>>

\* WorkerExit with a return in place of sys.exit(1): the task yields its row
\* without writing anything and the chunk goes on
WorkerExit_returns(job) ==
    /\ job.phase = "check"
    /\ (~IsFile(Surf1(TaskOf(job))) \/ ~IsFile(Surf2(TaskOf(job))))
    /\ LET rows == Append(job.rows, Row(TaskOf(job)))
       IN  IF TaskIndex(job) = ChunkLast(job.chunk)
           THEN /\ running' = (running \ {job}) \cup TakeNext
                /\ next_chunk' = NextAfterTake
                /\ chunk_result' = [chunk_result EXCEPT ![job.chunk] = rows]
           ELSE /\ running' = (running \ {job}) \cup
                        {[job EXCEPT !.pos = job.pos + 1, !.phase = "check", !.rows = rows]}
                /\ UNCHANGED <<chunk_result, next_chunk>>
    /\ UNCHANGED <<dir_list, missing, n_cpu, subjects, editors, compare_args,
                   lost, written, csv, bpc, notBatch>>

\* compare_editors, lines 156-162: sys.exit(1) in the worker.  SystemExit is
\* no Exception, so the pool's worker loop does not catch it: the process
\* ends, its chunk's result is never sent, and the pool starts a new worker.
WorkerExit(job) ==
    /\ job.phase = "check"
    /\ (~IsFile(Surf1(TaskOf(job))) \/ ~IsFile(Surf2(TaskOf(job))))
    /\ running' = (running \ {job}) \cup TakeNext
    /\ next_chunk' = NextAfterTake
    /\ lost' = lost \cup {job.chunk}
    /\ UNCHANGED <<dir_list, missing, n_cpu, subjects, editors, compare_args,
                   chunk_result, written, csv, bpc, notBatch>>

\* compare_editors, lines 208-214: the distance file is complete and
\* shutil.copy opens the copy of the source mesh
BeginCopy(job) ==
    /\ job.phase = "write_dist"
    /\ written' = written \cup {[path |-> DistPath(TaskOf(job)), task |-> TaskIndex(job)]}
    /\ running' = (running \ {job}) \cup {[job EXCEPT !.phase = "copy"]}
    /\ UNCHANGED <<dir_list, missing, n_cpu, subjects, editors, compare_args, next_chunk,
                   lost, chunk_result, csv, bpc, notBatch>>

\* compare_editors, lines 214-216: the copy is complete and the row is
\* returned; after the chunk's last task the worker sends the chunk's rows
TaskReturn(job) ==
    /\ job.phase = "copy"
    /\ written' = written \cup {[path |-> CopyPath(TaskOf(job)), task |-> TaskIndex(job)]}
    /\ LET rows == Append(job.rows, Row(TaskOf(job)))
       IN  IF TaskIndex(job) = ChunkLast(job.chunk)
           THEN /\ running' = (running \ {job}) \cup TakeNext
                /\ next_chunk' = NextAfterTake
                /\ chunk_result' = [chunk_result EXCEPT ![job.chunk] = rows]
           ELSE /\ running' = (running \ {job}) \cup
                        {[job EXCEPT !.pos = job.pos + 1, !.phase = "check", !.rows = rows]}
                /\ UNCHANGED <<chunk_result, next_chunk>>
    /\ UNCHANGED <<dir_list, missing, n_cpu, subjects, editors, compare_args,
                   lost, csv, bpc, notBatch>>

\* main, lines 107-116: starmap returns once every chunk's rows have arrived,
\* with the rows in chunk order; the table is written
CollectAndSave ==
    /\ bpc = "map"
    /\ \A c \in 1..Len(chunk_result) : chunk_result[c] # NoRows
    /\ csv' = Flatten(chunk_result)
    /\ bpc' = "done"
    /\ UNCHANGED <<dir_list, missing, n_cpu, subjects, editors, compare_args, next_chunk,
                   running, lost, chunk_result, written, notBatch>>

BatchNext ==
    \/ Parse
    \/ Submit
    \/ \E job \in running : SurfacesFound(job)
    \/ \E job \in running : WorkerExit(job)
    \/ \E job \in running : BeginCopy(job)
    \/ \E job \in running : TaskReturn(job)
    \/ CollectAndSave

SpecBatch == BatchInit /\ [][BatchNext]_vars

-----------------------------------------------------------------------------
(* Properties of the batch (checked under SpecBatch) *)

\* the file a busy worker has open for writing, if any
OpenWrite(job) ==
    IF job.phase = "write_dist" THEN {DistPath(TaskOf(job))}
    ELSE IF job.phase = "copy" THEN {CopyPath(TaskOf(job))}
    ELSE {}

\* the two files a task writes
OutPaths(t) == {DistPath(t), CopyPath(t)}

\* C7: compare_editors invocations that run at the same time share no output
\* file: the files of two distinct submitted tuples are different, so at no
\* moment do two busy workers have the same file open for writing.
C7_NoSharedOutput ==
    \A j1, j2 \in running : j1 # j2 => OpenWrite(j1) \cap OpenWrite(j2) = {}

\* the same without the interleaving: no file is written by two different tasks
OutputsDisjoint ==
    \A w1, w2 \in written : w1.path = w2.path => w1.task = w2.task

\* the distance files alone are written by one task each
DistPathsDisjoint ==
    \A i, j \in 1..Len(compare_args) :
        DistPath(compare_args[i]) = DistPath(compare_args[j]) => i = j

\* the set of rows the claim describes: every subject, hemisphere and surface
\* with every pair of distinct editors in sorted order
ExpectedRows ==
    {<<rsplit(d)[1], e1, e2, hemis[h], surfnames[f]>> :
        d \in dir_list, e1 \in {rsplit(x)[2] : x \in dir_list},
        e2 \in {rsplit(x)[2] : x \in dir_list},
        h \in 1..Len(hemis), f \in 1..Len(surfnames)}
    \cap {r \in Seq(Seq(STRING)) : StrLess(r[2], r[3])}

\* row r comes before row q in the order of the submission loops: by
\* subject, then hemisphere, then surface, then editor 1, then editor 2
RowBefore(r, q) ==
    LET key == <<1, 4, 5, 2, 3>>
    IN  \E i \in 1..5 :
            /\ \A j \in 1..(i - 1) : r[key[j]] = q[key[j]]
            /\ StrLess(r[key[i]], q[key[i]])

\* C8: when the table is written it has exactly one row per subject,
\* hemisphere, surface and unordered pair of distinct editors, editor 1 before
\* editor 2, and the rows are in submission order whatever the order in which
\* the workers finished.
C8_OneRowPerTuple ==
    (bpc = "done") =>
        /\ {csv[i] : i \in 1..Len(csv)} = ExpectedRows
        /\ Len(csv) = Cardinality(ExpectedRows)
        /\ \A i \in 1..Len(csv) : csv[i] = Row(compare_args[i])
        /\ \A i, j \in 1..Len(csv) : i < j => RowBefore(csv[i], csv[j])

\* a written table of two subjects, or of three editors, computed by two
\* workers at least
C8_Witness ==
    /\ bpc = "done" /\ n_cpu >= 2 /\ Len(csv) >= 8
    /\ (Len(subjects) >= 2 \/ Len(editors) >= 3)

\* some submitted tuple lacks the surface file of editor 1 or of editor 2
SomeSurfaceMissing ==
    \E i \in 1..Len(compare_args) :
        ~IsFile(Surf1(compare_args[i])) \/ ~IsFile(Surf2(compare_args[i]))

\* C9: when the surface file of either editor is missing for some submitted
\* tuple, the run never writes the summary table.
C9_MissingSurfaceIsFatal ==
    SomeSurfaceMissing => (csv = NoCsv /\ bpc # "done")

\* a run that has stopped for good: one chunk's worker exited on a missing
\* surface, another chunk's rows have arrived, nothing is running or queued
C9_Witness ==
    /\ bpc = "map" /\ SomeSurfaceMissing /\ lost # {}
    /\ running = {} /\ next_chunk > Len(chunk_result)
    /\ \E c \in 1..Len(chunk_result) : chunk_result[c] # NoRows
    /\ csv = NoCsv

-----------------------------------------------------------------------------
(* prep_rerun_fsrecon.py: main, lines 20-126 *)

PrepEditors == {"E1", "E2"}
PrepSubjects == {"s1", "s2"}

fs_dir == "/data2/conte/derivatives/freesurfer_6"
fs_edit_dir == "/data2/conte/derivatives/freesurfer_6_edited"

\* '{}-{}'.format(subject, editor)
CloneName(subject, editor) == subject \o "-" \o editor

\* the subject listings of one editor: every arrangement of every subset
SubjLists ==
    {<<>>} \cup {<<x>> : x \in PrepSubjects}
           \cup {q \in PrepSubjects \X PrepSubjects : q[1] # q[2]}

\* the (editor, subject) pairs in the order the two loops visit them
RECURSIVE Entries(_)
Entries(l) ==
    IF l = <<>> THEN <<>>
    ELSE [i \in 1..Len(Head(l).subjects) |->
              [editor |-> Head(l).editor, subject |-> Head(l).subjects[i]]]
         \o Entries(Tail(l))

Listings ==
    {l \in UNION {[1..n -> [editor : PrepEditors, subjects : SubjLists]] : n \in 0..2} :
        /\ \A i, j \in 1..Len(l) : l[i].editor = l[j].editor => i = j
        /\ Len(Entries(l)) <= MaxEntries}

\* the edited files an editor may have left for a subject
Kinds == {"brainmask.mgz", "brain.finalsurf.manedit.mgz", "wm.mgz", "control.dat"}

\* what os.path.isfile finds for one (editor, subject): nothing, one kind, or all
FoundSets == {{}} \cup {{x} : x \in Kinds} \cup {Kinds}

\* lines 68-115: the command for clone name c and the edited files found
Command(c, found) ==
    LET arpial_opt == IF "brainmask.mgz" \in found \/ "brain.finalsurf.manedit.mgz" \in found
                      THEN " -autorecon-pial" ELSE ""
        ar3_opt == IF "wm.mgz" \in found \/ "control.dat" \in found
                   THEN " -autorecon3" ELSE ""
        wm == IF "wm.mgz" \in found THEN " -autorecon2-wm" ELSE ""
        cp == IF "control.dat" \in found THEN " -autorecon2-cp" ELSE ""
    IN  "recon-all -sd " \o fs_edit_dir \o " -subjid " \o c \o wm \o cp \o ar3_opt \o arpial_opt

\* lines 73-110: where the edited file of a kind is copied to
CopyDst(dir, kind) ==
    IF kind = "control.dat" THEN dir \o "/tmp/" \o kind ELSE dir \o "/mri/" \o kind

PrepInit ==
    /\ listing \in Listings
    /\ recons \in SUBSET PrepSubjects
    /\ clones \in {{}} \cup {{CloneName(x, e)} : x \in PrepSubjects, e \in PrepEditors}
    /\ edited_subject = Unbound /\ subj_edit_dir = Unbound
    /\ cmd_list = <<>> /\ cmd_by = <<>> /\ copies = {}
    /\ iter = 0 /\ cmds_file = NoCmds
    /\ ppc = "loop"
    /\ MergeIdle /\ DistIdle /\ BatchIdle

\* one iteration of the inner loop, lines 39-118
PrepIteration ==
    /\ ppc = "loop"
    /\ iter < Len(Entries(listing))
    /\ LET editor == Entries(listing)[iter + 1].editor
           subject == Entries(listing)[iter + 1].subject
           found_recon == subject \in recons
           \* lines 46-65
           es == IF found_recon THEN CloneName(subject, editor) ELSE edited_subject
           dir == IF found_recon THEN fs_edit_dir \o "/" \o CloneName(subject, editor)
                  ELSE subj_edit_dir
       IN  /\ iter' = iter + 1
           /\ edited_subject' = es
           /\ subj_edit_dir' = dir
           /\ clones' = IF found_recon THEN clones \cup {CloneName(subject, editor)} ELSE clones
           /\ IF es = Unbound
              THEN \* line 68: NameError, edited_subject was never assigned
                   /\ ppc' = "crash"
                   /\ UNCHANGED <<cmd_list, cmd_by, copies>>
              ELSE \E found \in FoundSets :
                   /\ copies' = copies \cup
                          {[editor |-> editor, subject |-> subject, kind |-> kd,
                            dst |-> CopyDst(dir, kd)] : kd \in found}
                   /\ cmd_list' = Append(cmd_list, Command(es, found))
                   /\ cmd_by' = Append(cmd_by, [editor |-> editor, subject |-> subject])
                   /\ ppc' = "loop"
    /\ UNCHANGED <<listing, recons, cmds_file, notPrep>>

\* lines 120-126
WriteCommands ==
    /\ ppc = "loop"
    /\ iter = Len(Entries(listing))
    /\ cmds_file' = cmd_list
    /\ ppc' = "done"
    /\ UNCHANGED <<listing, recons, clones, edited_subject, subj_edit_dir, cmd_list,
                   cmd_by, copies, iter, notPrep>>

PrepNext == PrepIteration \/ WriteCommands

SpecPrep == PrepInit /\ [][PrepNext]_vars

-----------------------------------------------------------------------------
(* Properties of prep_rerun_fsrecon.py (checked under SpecPrep) *)

\* C10: a subject without an unedited recon directory is skipped: no command
\* is appended and no edited file copied for it, and every command names the
\* clone '<subject>-<editor>' of the iteration that appended it.
C10_SkippedSubjectLeavesNoTrace ==
    /\ \A i \in 1..Len(cmd_list) :
          /\ cmd_by[i].subject \in recons
          /\ cmd_list[i] \in {Command(CloneName(cmd_by[i].subject, cmd_by[i].editor), f) :
                                 f \in FoundSets}
    /\ \A c \in copies :
          /\ c.subject \in recons
          /\ c.dst = CopyDst(fs_edit_dir \o "/" \o CloneName(c.subject, c.editor), c.kind)

====
